---- MODULE Spec2Model ----
(***************************************************************************)
(* State-machine model of the exam-window admission, enrollment and        *)
(* submission-gating logic of uni_papermanager (Django views and forms).   *)
(* Tables are sets of rows; every view is one action (Spec) or, where its  *)
(* query-then-write steps can interleave with another request, a read step *)
(* followed by write steps (SpecConc).                                     *)
(***************************************************************************)
EXTENDS Integers, Sequences, FiniteSets, TLC

\* ------------------------------------------------------------------ bounds
MaxStudents == 2
MaxAdmins == 1
MaxCourses == 2
MaxExams == 2
MaxTick == 3
MaxEnrollId == 2
MaxSubId == 2
MaxProcs == 2
MaxExamId == 3
MaxCourseId == 4
MaxPrograms == 2
MaxRedirects == 5

\* one step of the clock, in seconds
TimeStep == 900

\* ------------------------------------------------------- program constants
\* exams/forms.py:136  10 * 1024 * 1024
MaxUploadSize == 10485760

\* exams/forms.py:207  100 marks, in hundredths of a mark
FullMarks == 10000

\* exams/forms.py:67  15 minutes, in seconds
MinDuration == 900

\* exams/forms.py:71  24 hours, in seconds
MaxDuration == 86400

StudentIds == 1..MaxStudents
AdminIds == 1..MaxAdmins
CourseIds == 1..MaxCourses
ExamIds == 1..MaxExams
Procs == 1..MaxProcs
Instants == {k * TimeStep : k \in 0..MaxTick}

\* an id no row has (a request for an object that does not exist)
NoSuchId == 0

\* accounts/models.py User.user_type with its Student / Admin row
Users == [type : {"student"}, id : StudentIds] \cup [type : {"admin"}, id : AdminIds]

Methods == {"GET", "POST"}

VARIABLES
    now,            \* timezone.now(), seconds
    courses,        \* academics.Course rows
    nextCourseId,   \* Course.course_id AutoField
    exams,          \* exams.Exam rows
    nextExamId,     \* Exam.exam_id AutoField
    enrollments,    \* enrollments.Enrollment rows
    nextEnrollId,   \* Enrollment.enrollment_id AutoField
    submissions,    \* exams.ExamSubmission rows
    nextSubId,      \* ExamSubmission.submission_id AutoField
    results,        \* exams.Result rows
    reqs            \* requests between their query and their write

vars == <<now, courses, nextCourseId, exams, nextExamId, enrollments, nextEnrollId, submissions,
          nextSubId, results, reqs>>

store == <<courses, nextCourseId, exams, nextExamId, enrollments, nextEnrollId, submissions, nextSubId,
          results>>

\* ------------------------------------------------------------ file names
LowerCase == <<"a","b","c","d","e","f","g","h","i","j","k","l","m",
               "n","o","p","q","r","s","t","u","v","w","x","y","z">>
UpperCase == <<"A","B","C","D","E","F","G","H","I","J","K","L","M",
               "N","O","P","Q","R","S","T","U","V","W","X","Y","Z">>

\* str.lower() on one character
lower_char(c) ==
    IF \E i \in 1..26 : UpperCase[i] = c
    THEN LowerCase[CHOOSE i \in 1..26 : UpperCase[i] = c]
    ELSE c

\* str.lower()
lower(s) == [i \in 1..Len(s) |-> lower_char(s[i])]

\* os.path.splitext(name)[1]: from the last dot on, unless only dots precede it
splitext_ext(name) ==
    LET dots == {i \in 1..Len(name) : name[i] = "."}
    IN  IF dots = {} THEN <<>>
        ELSE LET d == CHOOSE i \in dots : \A j \in dots : j <= i
             IN  IF \E k \in 1..(d - 1) : name[k] # "."
                 THEN SubSeq(name, d, Len(name))
                 ELSE <<>>

allowed_extensions ==
    { <<".","p","d","f">>, <<".","d","o","c">>, <<".","d","o","c","x">>,
      <<".","t","x","t">>, <<".","z","i","p">> }

\* ExamSubmissionForm.clean_file_path: TRUE when no ValidationError is raised
clean_file_path_noext(file) ==
    /\ ~(file.size > MaxUploadSize)
    /\ splitext_ext(file.name) \in allowed_extensions

clean_file_path_ge(file) ==
    /\ ~(file.size >= MaxUploadSize)
    /\ lower(splitext_ext(file.name)) \in allowed_extensions

clean_file_path(file) ==
    /\ ~(file.size > MaxUploadSize)
    /\ lower(splitext_ext(file.name)) \in allowed_extensions

\* the uploads a request may carry: one that passes, one too large, one of a type
\* not allowed
Files ==
    { [name |-> <<"a",".","p","d","f">>, size |-> 2097152],
      [name |-> <<"a",".","p","d","f">>, size |-> MaxUploadSize + 1],
      [name |-> <<"a",".","e","x","e">>, size |-> 2097152] }

\* uploads around every limit of the validation: sizes at and next to the limit,
\* each allowed type in lower, upper and mixed case, names without a type, names
\* that only start with a dot, types that only resemble an allowed one
UploadNames ==
    { <<"a",".","p","d","f">>, <<"a",".","P","D","F">>, <<"a",".","d","o","c">>,
      <<"a",".","D","o","c","X">>, <<"a",".","d","o","c","x">>, <<"a",".","t","x","t">>,
      <<"b",".","Z","I","P">>, <<"a",".","t","a","r",".","z","i","p">>,
      <<"a",".","e","x","e">>, <<".","p","d","f">>, <<"p","d","f">>,
      <<"a",".","p","d","f",".","e","x","e">>, <<"a",".","d","o","c","x","x">>,
      <<"a",".">>, <<"a",".","p","d">> }
UploadSizes == {2097152, MaxUploadSize, MaxUploadSize + 1}
Uploads == [name : UploadNames, size : UploadSizes]

\* a submission time a client may post along with the file
PostedTimes == {0}

\* ------------------------------------------------------------------ rows
Idle == [pc |-> "idle"]

\* get_object_or_404(Course, course_id=...)
CourseExists(course_id) == \E c \in courses : c.id = course_id

\* get_object_or_404(Exam, exam_id=...)
ExamExists(exam_id) == \E e \in exams : e.id = exam_id
GetExam(exam_id) == CHOOSE e \in exams : e.id = exam_id

\* Exam.is_active at the instant t that timezone.now() returns
is_active_late(exam, t) == exam.start <= t

is_active_strict(exam, t) == exam.start < t /\ t < exam.end

is_active(exam, t) == exam.start <= t /\ t <= exam.end

\* exam_list_admin, lines 106-112: the status filter of the listing at instant t
exam_list_admin_filter(status, exam, t) ==
    IF status = "upcoming" THEN exam.start > t
    ELSE IF status = "active" THEN exam.start <= t /\ exam.end >= t
    ELSE IF status = "completed" THEN exam.end < t
    ELSE TRUE

\* Enrollment.objects.filter(student=..., course=...).exists()
IsEnrolled(student, course) ==
    \E en \in enrollments : en.student = student /\ en.course = course

\* ExamSubmission.objects.filter(student=..., exam=...).exists()
HasSubmitted(student, exam_id) ==
    \E sb \in submissions : sb.student = student /\ sb.exam = exam_id

\* ExamSubmission.objects.filter(student=..., exam__course=...).exists()
HasCourseSubmissions(student, course) ==
    \E sb \in submissions :
        /\ sb.student = student
        /\ \E e \in exams : e.id = sb.exam /\ e.course = course

\* --------------------------------------------------------------- listings
\* ExamFilterForm.STATUS_CHOICES, lines 79-84; the field is not required, so the
\* empty status is valid as well
STATUS_CHOICES == {"all", "upcoming", "active", "completed"}

ExamFilterForm_is_valid(status) == status \in STATUS_CHOICES \cup {""}

\* exam_list_student, lines 279-289: the status filter at instant t
exam_list_student_filter(status, exam, t) ==
    IF ~ExamFilterForm_is_valid(status) THEN TRUE
    ELSE IF status = "available" THEN exam.start <= t /\ exam.end >= t
    ELSE IF status = "upcoming" THEN exam.start > t
    ELSE IF status = "completed" THEN exam.end < t
    ELSE TRUE

\* exam_list_student, lines 270-289: the exams of the student's courses that pass
\* the filter
exam_list_student(u, status) ==
    {e \in exams : IsEnrolled(u.id, e.course) /\ exam_list_student_filter(status, e, now)}

\* exam_list_admin, lines 92-112: the admin's exams that pass the filter
exam_list_admin(u, status) ==
    {e \in exams :
        /\ e.admin = u.id
        /\ ExamFilterForm_is_valid(status) => exam_list_admin_filter(status, e, now)}

\* -------------------------------------------------------------- submit_exam
\* submit_exam, lines 366-391: the checks made before the form is read
submit_exam_checks_noenroll(u, exam_id) ==
    IF u.type # "student" THEN "AccessDenied"
    ELSE IF ~ExamExists(exam_id) THEN "NotFound"
    ELSE IF ~is_active(GetExam(exam_id), now) THEN "ExamNotActive"
    ELSE IF HasSubmitted(u.id, exam_id) THEN "AlreadySubmitted"
    ELSE "Pass"

submit_exam_checks_nodup(u, exam_id) ==
    IF u.type # "student" THEN "AccessDenied"
    ELSE IF ~ExamExists(exam_id) THEN "NotFound"
    ELSE IF ~IsEnrolled(u.id, GetExam(exam_id).course) THEN "NotEnrolled"
    ELSE IF ~is_active(GetExam(exam_id), now) THEN "ExamNotActive"
    ELSE "Pass"

submit_exam_checks_dupfirst(u, exam_id) ==
    IF u.type # "student" THEN "AccessDenied"
    ELSE IF ~ExamExists(exam_id) THEN "NotFound"
    ELSE IF ~IsEnrolled(u.id, GetExam(exam_id).course) THEN "NotEnrolled"
    ELSE IF HasSubmitted(u.id, exam_id) THEN "AlreadySubmitted"
    ELSE IF ~is_active(GetExam(exam_id), now) THEN "ExamNotActive"
    ELSE "Pass"

submit_exam_checks(u, exam_id) ==
    IF u.type # "student" THEN "AccessDenied"
    ELSE IF ~ExamExists(exam_id) THEN "NotFound"
    ELSE IF ~IsEnrolled(u.id, GetExam(exam_id).course) THEN "NotEnrolled"
    ELSE IF ~is_active(GetExam(exam_id), now) THEN "ExamNotActive"
    ELSE IF HasSubmitted(u.id, exam_id) THEN "AlreadySubmitted"
    ELSE "Pass"

\* submit_exam, lines 393-409: what the request comes to once the checks passed
submit_exam_form(method, file) ==
    IF method # "POST" THEN "Form"
    ELSE IF clean_file_path(file) THEN "Save"
    ELSE "InvalidFile"

\* the outcome of submit_exam(u, exam_id) on the present store
submit_exam_outcome(u, exam_id, method, file) ==
    IF submit_exam_checks(u, exam_id) # "Pass" THEN submit_exam_checks(u, exam_id)
    ELSE submit_exam_form(method, file)

\* the row form.save(commit=False) + submission.save() inserts: the form has the
\* one field file_path, submission_time is auto_now_add, so a posted time is dropped
NewSubmission_posted(student, exam_id, file, posted_time) ==
    [id |-> nextSubId, student |-> student, exam |-> exam_id,
     time |-> posted_time, file |-> file.name]

NewSubmission(student, exam_id, file, posted_time) ==
    [id |-> nextSubId, student |-> student, exam |-> exam_id,
     time |-> now, file |-> file.name]

ExamSubmission_save(student, exam_id, file, posted_time) ==
    /\ nextSubId <= MaxSubId
    /\ submissions' = submissions \cup {NewSubmission(student, exam_id, file, posted_time)}
    /\ nextSubId' = nextSubId + 1

\* the whole view, served without another request in between
submit_exam_savefirst(u, exam_id, method, file, posted_time) ==
    /\ IF submit_exam_checks(u, exam_id) = "Pass" /\ method = "POST"
       THEN ExamSubmission_save(u.id, exam_id, file, posted_time)
       ELSE UNCHANGED <<submissions, nextSubId>>
    /\ UNCHANGED <<now, courses, nextCourseId, exams, nextExamId, enrollments, nextEnrollId, results, reqs>>

submit_exam(u, exam_id, method, file, posted_time) ==
    /\ IF submit_exam_outcome(u, exam_id, method, file) = "Save"
       THEN ExamSubmission_save(u.id, exam_id, file, posted_time)
       ELSE UNCHANGED <<submissions, nextSubId>>
    /\ UNCHANGED <<now, courses, nextCourseId, exams, nextExamId, enrollments, nextEnrollId, results, reqs>>

\* ------------------------------------------------------------ enrollments
\* Enrollment.Meta.unique_together = ('student', 'course'): the store raises
\* IntegrityError on an insert of a second row for the pair
UniqueViolation_off(rows, student, course) == FALSE

UniqueViolation(rows, student, course) ==
    \E en \in rows : en.student = student /\ en.course = course

\* the row Enrollment.objects.create(student=..., course=...) inserts
NewEnrollment(id, student, course) == [id |-> id, student |-> student, course |-> course]

\* enroll_course, lines 95-108
enroll_course_checks_nodup(u, course_id) ==
    IF u.type # "student" THEN "AccessDenied"
    ELSE IF ~CourseExists(course_id) THEN "NotFound"
    ELSE "Pass"

enroll_course_checks(u, course_id) ==
    IF u.type # "student" THEN "AccessDenied"
    ELSE IF ~CourseExists(course_id) THEN "NotFound"
    ELSE IF IsEnrolled(u.id, course_id) THEN "AlreadyEnrolled"
    ELSE "Pass"

\* enroll_course, lines 110-126; EnrollmentConfirmForm.confirm is required
enroll_course_form(method, confirm) ==
    IF method # "POST" THEN "Form"
    ELSE IF confirm THEN "Create"
    ELSE "NotConfirmed"

enroll_course_outcome(u, course_id, method, confirm) ==
    IF enroll_course_checks(u, course_id) # "Pass" THEN enroll_course_checks(u, course_id)
    ELSE enroll_course_form(method, confirm)

\* enroll_course, lines 114-122: create; the except branch keeps the store as it is
enroll_course_create(student, course_id) ==
    IF UniqueViolation(enrollments, student, course_id)
    THEN UNCHANGED <<enrollments, nextEnrollId>>
    ELSE /\ nextEnrollId <= MaxEnrollId
         /\ enrollments' = enrollments \cup {NewEnrollment(nextEnrollId, student, course_id)}
         /\ nextEnrollId' = nextEnrollId + 1

enroll_course(u, course_id, method, confirm) ==
    /\ IF enroll_course_outcome(u, course_id, method, confirm) = "Create"
       THEN enroll_course_create(u.id, course_id)
       ELSE UNCHANGED <<enrollments, nextEnrollId>>
    /\ UNCHANGED <<now, courses, nextCourseId, exams, nextExamId, submissions, nextSubId, results, reqs>>

\* get_object_or_404(Enrollment, enrollment_id=..., student=student)
OwnEnrollment(student, enrollment_id) ==
    {en \in enrollments : en.id = enrollment_id /\ en.student = student}

\* unenroll_course, lines 138-157
unenroll_course_checks_nosub(u, enrollment_id) ==
    IF u.type # "student" THEN "AccessDenied"
    ELSE IF OwnEnrollment(u.id, enrollment_id) = {} THEN "NotFound"
    ELSE "Pass"

unenroll_course_checks(u, enrollment_id) ==
    IF u.type # "student" THEN "AccessDenied"
    ELSE IF OwnEnrollment(u.id, enrollment_id) = {} THEN "NotFound"
    ELSE IF HasCourseSubmissions(u.id, (CHOOSE en \in OwnEnrollment(u.id, enrollment_id) : TRUE).course)
         THEN "HasSubmissions"
    ELSE "Pass"

\* unenroll_course, lines 159-170; UnenrollmentConfirmForm.confirm is required
unenroll_course_form(method, confirm) ==
    IF method # "POST" THEN "Form"
    ELSE IF confirm THEN "Delete"
    ELSE "NotConfirmed"

unenroll_course_outcome(u, enrollment_id, method, confirm) ==
    IF unenroll_course_checks(u, enrollment_id) # "Pass"
    THEN unenroll_course_checks(u, enrollment_id)
    ELSE unenroll_course_form(method, confirm)

unenroll_course(u, enrollment_id, method, confirm) ==
    /\ IF unenroll_course_outcome(u, enrollment_id, method, confirm) = "Delete"
       THEN enrollments' = {en \in enrollments : en.id # enrollment_id}
       ELSE UNCHANGED enrollments
    /\ UNCHANGED <<now, courses, nextCourseId, exams, nextExamId, nextEnrollId, submissions, nextSubId, results, reqs>>

\* delete_enrollment_admin, lines 386-403
delete_enrollment_admin_outcome(u, enrollment_id, method) ==
    IF u.type # "admin" THEN "AccessDenied"
    ELSE IF ~\E en \in enrollments : en.id = enrollment_id THEN "NotFound"
    ELSE IF method # "POST" THEN "Form"
    ELSE "Delete"

delete_enrollment_admin(u, enrollment_id, method) ==
    /\ IF delete_enrollment_admin_outcome(u, enrollment_id, method) = "Delete"
       THEN enrollments' = {en \in enrollments : en.id # enrollment_id}
       ELSE UNCHANGED enrollments
    /\ UNCHANGED <<now, courses, nextCourseId, exams, nextExamId, nextEnrollId, submissions, nextSubId, results, reqs>>

\* -------------------------------------------------------------- bulk_enroll
\* the selected students in the order of the form's queryset
RECURSIVE Ordered(_)
Ordered(S) ==
    IF S = {} THEN <<>>
    ELSE LET m == CHOOSE x \in S : \A y \in S : x <= y
         IN  <<m>> \o Ordered(S \ {m})

\* BulkEnrollmentForm.__init__, lines 152-159: the students offered for the course
BulkEnrollmentForm_queryset(course_id) ==
    {st \in StudentIds : ~IsEnrolled(st, course_id)}

\* BulkEnrollmentForm.clean, lines 175-185: the students already enrolled
already_enrolled_first(students, course_id) ==
    {st \in students : IsEnrolled(st, course_id) /\ \A o \in students : st <= o}

already_enrolled(students, course_id) ==
    {st \in students : IsEnrolled(st, course_id)}

\* bulk_enroll, lines 358-374, with BulkEnrollmentForm.is_valid()
bulk_enroll_outcome_novalid(u, course_id, method, students) ==
    IF u.type # "admin" THEN "AccessDenied"
    ELSE IF ~CourseExists(course_id) THEN "NotFound"
    ELSE IF method # "POST" THEN "Form"
    ELSE IF students = {} THEN "InvalidForm"
    ELSE "Save"

bulk_enroll_outcome(u, course_id, method, students) ==
    IF u.type # "admin" THEN "AccessDenied"
    ELSE IF ~CourseExists(course_id) THEN "NotFound"
    ELSE IF method # "POST" THEN "Form"
    ELSE IF students = {} THEN "InvalidForm"
    ELSE IF ~(students \subseteq BulkEnrollmentForm_queryset(course_id)) THEN "AlreadyEnrolled"
    ELSE IF already_enrolled(students, course_id) # {} THEN "AlreadyEnrolled"
    ELSE "Save"

\* BulkEnrollmentForm.save, lines 189-202: one create per student, in order; an
\* IntegrityError leaves the loop with the rows created so far in the store
RECURSIVE BulkEnrollmentForm_save(_, _, _, _)
BulkEnrollmentForm_save(todo, course_id, rows, next) ==
    IF todo = <<>> THEN [rows |-> rows, next |-> next, failed |-> FALSE]
    ELSE IF UniqueViolation(rows, Head(todo), course_id)
         THEN [rows |-> rows, next |-> next, failed |-> TRUE]
    ELSE BulkEnrollmentForm_save(Tail(todo), course_id,
             rows \cup {NewEnrollment(next, Head(todo), course_id)}, next + 1)

bulk_enroll(u, course_id, method, students) ==
    /\ IF bulk_enroll_outcome(u, course_id, method, students) = "Save"
       THEN LET r == BulkEnrollmentForm_save(Ordered(students), course_id,
                                             enrollments, nextEnrollId)
            IN  /\ r.next <= MaxEnrollId + 1
                /\ enrollments' = r.rows
                /\ nextEnrollId' = r.next
       ELSE UNCHANGED <<enrollments, nextEnrollId>>
    /\ UNCHANGED <<now, courses, nextCourseId, exams, nextExamId, submissions, nextSubId, results, reqs>>

\* --------------------------------------------------------- grade_submission
\* Result.marks is DecimalField(max_digits=5, decimal_places=2): marks are counted
\* in hundredths of a mark, 100 marks being FullMarks
\* get_object_or_404(ExamSubmission, submission_id=..., exam__admin=admin)
OwnSubmission(admin, submission_id) ==
    {sb \in submissions :
        /\ sb.id = submission_id
        /\ \E e \in exams : e.id = sb.exam /\ e.admin = admin}

\* Result.objects.get(submission=submission), or None
ResultOf(submission_id) == {r \in results : r.submission = submission_id}

\* ResultForm.clean_marks: TRUE when no ValidationError is raised
clean_marks_open(marks) == ~(marks <= 0) /\ ~(marks >= FullMarks)

clean_marks_nomax(marks) == ~(marks < 0)

clean_marks(marks) == ~(marks < 0) /\ ~(marks > FullMarks)

\* ResultForm.clean: the grade of cleaned_data; NoGrade is the empty choice
NoGrade == ""

ResultForm_clean_gt(marks, grade) ==
    IF grade # NoGrade THEN grade
    ELSE IF marks > 9000 THEN "A+"
    ELSE IF marks >= 8500 THEN "A"
    ELSE IF marks >= 8000 THEN "A-"
    ELSE IF marks >= 7500 THEN "B+"
    ELSE IF marks >= 7000 THEN "B"
    ELSE IF marks >= 6500 THEN "B-"
    ELSE IF marks >= 6000 THEN "C+"
    ELSE IF marks >= 5500 THEN "C"
    ELSE IF marks >= 5000 THEN "C-"
    ELSE IF marks >= 4000 THEN "D"
    ELSE "F"

ResultForm_clean(marks, grade) ==
    IF grade # NoGrade THEN grade
    ELSE IF marks >= 9000 THEN "A+"
    ELSE IF marks >= 8500 THEN "A"
    ELSE IF marks >= 8000 THEN "A-"
    ELSE IF marks >= 7500 THEN "B+"
    ELSE IF marks >= 7000 THEN "B"
    ELSE IF marks >= 6500 THEN "B-"
    ELSE IF marks >= 6000 THEN "C+"
    ELSE IF marks >= 5500 THEN "C"
    ELSE IF marks >= 5000 THEN "C-"
    ELSE IF marks >= 4000 THEN "D"
    ELSE "F"

\* grade_submission, lines 417-452
grade_submission_outcome(u, submission_id, method, marks) ==
    IF u.type # "admin" THEN "AccessDenied"
    ELSE IF OwnSubmission(u.id, submission_id) = {} THEN "NotFound"
    ELSE IF method # "POST" THEN "Form"
    ELSE IF ~clean_marks(marks) THEN "InvalidMarks"
    ELSE "Save"

\* Result.result_id of the next insert: no view deletes a Result
NewResultId == Cardinality(results) + 1

\* grade_submission, lines 437-442: ResultForm(request.POST, instance=result),
\* form.save(commit=False), result_obj.save()
Result_save_insert(submission_id, marks, grade, feedback) ==
    results \cup {[id |-> NewResultId, submission |-> submission_id, marks |-> marks,
                   grade |-> ResultForm_clean(marks, grade), feedback |-> feedback]}

Result_save(submission_id, marks, grade, feedback) ==
    IF ResultOf(submission_id) = {}
    THEN results \cup {[id |-> NewResultId, submission |-> submission_id, marks |-> marks,
                        grade |-> ResultForm_clean(marks, grade), feedback |-> feedback]}
    ELSE {IF r.submission = submission_id
          THEN [r EXCEPT !.marks = marks, !.grade = ResultForm_clean(marks, grade),
                         !.feedback = feedback]
          ELSE r : r \in results}

grade_submission(u, submission_id, method, marks, grade, feedback) ==
    /\ IF grade_submission_outcome(u, submission_id, method, marks) = "Save"
       THEN results' = Result_save(submission_id, marks, grade, feedback)
       ELSE UNCHANGED results
    /\ UNCHANGED <<now, courses, nextCourseId, exams, nextExamId, enrollments, nextEnrollId, submissions, nextSubId,
                   reqs>>

\* ------------------------------------------------------- exam management
\* ExamForm.clean, lines 49-74, at the instant t that timezone.now() returns;
\* is_new is "not self.instance.pk"
ExamForm_clean_pastall(start, end, is_new, t) ==
    IF end <= start THEN "InvalidWindow"
    ELSE IF start < t THEN "PastStart"
    ELSE IF end - start < MinDuration THEN "TooShort"
    ELSE IF end - start > MaxDuration THEN "TooLong"
    ELSE "Valid"

ExamForm_clean_le(start, end, is_new, t) ==
    IF end <= start THEN "InvalidWindow"
    ELSE IF is_new /\ start < t THEN "PastStart"
    ELSE IF end - start <= MinDuration THEN "TooShort"
    ELSE IF end - start > MaxDuration THEN "TooLong"
    ELSE "Valid"

ExamForm_clean(start, end, is_new, t) ==
    IF end <= start THEN "InvalidWindow"
    ELSE IF is_new /\ start < t THEN "PastStart"
    ELSE IF end - start < MinDuration THEN "TooShort"
    ELSE IF end - start > MaxDuration THEN "TooLong"
    ELSE "Valid"

\* ExamForm.is_valid(): clean, and the course field's choice among the courses
ExamForm_is_valid(course_id, start, end, is_new) ==
    IF ExamForm_clean(start, end, is_new, now) # "Valid"
    THEN ExamForm_clean(start, end, is_new, now)
    ELSE IF ~CourseExists(course_id) THEN "InvalidCourse"
    ELSE "Save"

\* create_exam, lines 59-82
create_exam_outcome(u, method, course_id, start, end) ==
    IF u.type # "admin" THEN "AccessDenied"
    ELSE IF method # "POST" THEN "Form"
    ELSE ExamForm_is_valid(course_id, start, end, TRUE)

create_exam(u, method, course_id, start, end) ==
    /\ IF create_exam_outcome(u, method, course_id, start, end) = "Save"
       THEN /\ nextExamId <= MaxExamId
            /\ exams' = exams \cup {[id |-> nextExamId, course |-> course_id,
                                     start |-> start, end |-> end, admin |-> u.id]}
            /\ nextExamId' = nextExamId + 1
       ELSE UNCHANGED <<exams, nextExamId>>
    /\ UNCHANGED <<now, courses, nextCourseId, enrollments, nextEnrollId, submissions, nextSubId,
                   results, reqs>>

\* get_object_or_404(Exam, exam_id=..., admin=admin)
OwnExam_any(admin, exam_id) == {e \in exams : e.id = exam_id}

OwnExam(admin, exam_id) == {e \in exams : e.id = exam_id /\ e.admin = admin}

\* update_exam, lines 175-198
update_exam_outcome(u, exam_id, method, course_id, start, end) ==
    IF u.type # "admin" THEN "AccessDenied"
    ELSE IF OwnExam(u.id, exam_id) = {} THEN "NotFound"
    ELSE IF method # "POST" THEN "Form"
    ELSE ExamForm_is_valid(course_id, start, end, FALSE)

update_exam(u, exam_id, method, course_id, start, end) ==
    /\ IF update_exam_outcome(u, exam_id, method, course_id, start, end) = "Save"
       THEN exams' = {IF e.id = exam_id
                      THEN [e EXCEPT !.course = course_id, !.start = start, !.end = end]
                      ELSE e : e \in exams}
       ELSE UNCHANGED exams
    /\ UNCHANGED <<now, courses, nextCourseId, nextExamId, enrollments, nextEnrollId, submissions,
                   nextSubId, results, reqs>>

\* delete_exam, lines 201-218; ExamSubmission.exam is on_delete=PROTECT, so
\* exam.delete() raises ProtectedError while a submission references the exam
delete_exam_outcome_cascade(u, exam_id, method) ==
    IF u.type # "admin" THEN "AccessDenied"
    ELSE IF OwnExam(u.id, exam_id) = {} THEN "NotFound"
    ELSE IF method # "POST" THEN "Form"
    ELSE "Delete"

delete_exam_outcome(u, exam_id, method) ==
    IF u.type # "admin" THEN "AccessDenied"
    ELSE IF OwnExam(u.id, exam_id) = {} THEN "NotFound"
    ELSE IF method # "POST" THEN "Form"
    ELSE IF \E sb \in submissions : sb.exam = exam_id THEN "Protected"
    ELSE "Delete"

delete_exam(u, exam_id, method) ==
    /\ IF delete_exam_outcome(u, exam_id, method) = "Delete"
       THEN /\ exams' = {e \in exams : e.id # exam_id}
            /\ submissions' = {sb \in submissions : sb.exam # exam_id}
            /\ results' = {r \in results :
                              \E sb \in submissions' : sb.id = r.submission}
       ELSE UNCHANGED <<exams, submissions, results>>
    /\ UNCHANGED <<now, courses, nextCourseId, nextExamId, enrollments, nextEnrollId, nextSubId, reqs>>

\* delete_course, lines 302-318; Enrollment.course and Exam.course are
\* on_delete=PROTECT
delete_course_outcome_cascade(u, course_id, method) ==
    IF u.type # "admin" THEN "AccessDenied"
    ELSE IF ~CourseExists(course_id) THEN "NotFound"
    ELSE IF method # "POST" THEN "Form"
    ELSE "Delete"

delete_course_outcome(u, course_id, method) ==
    IF u.type # "admin" THEN "AccessDenied"
    ELSE IF ~CourseExists(course_id) THEN "NotFound"
    ELSE IF method # "POST" THEN "Form"
    ELSE IF \/ \E en \in enrollments : en.course = course_id
            \/ \E e \in exams : e.course = course_id
         THEN "Protected"
    ELSE "Delete"

delete_course(u, course_id, method) ==
    /\ IF delete_course_outcome(u, course_id, method) = "Delete"
       THEN courses' = {c \in courses : c.id # course_id}
       ELSE UNCHANGED courses
    /\ UNCHANGED <<now, nextCourseId, exams, nextExamId, enrollments, nextEnrollId, submissions,
                   nextSubId, results, reqs>>

\* ------------------------------------------------------------------ courses
ProgramIds == 1..MaxPrograms

\* course_name__iexact=..., program=...: the courses a name clashes with when
\* letter case is ignored
Course_filter_iexact(name, program) ==
    {c \in courses : lower(c.name) = lower(name) /\ c.program = program}

\* course_name=..., program=...: the exact lookup
Course_filter(name, program) ==
    {c \in courses : c.name = name /\ c.program = program}

\* CourseForm.clean, lines 115-136; instance_id is NoSuchId for a new course
CourseForm_clean(name, program, instance_id) ==
    IF \E c \in Course_filter_iexact(name, program) : c.id # instance_id
    THEN "DuplicateName"
    ELSE "Save"

\* create_course, lines 255-273
create_course_outcome(u, method, name, program) ==
    IF u.type # "admin" THEN "AccessDenied"
    ELSE IF method # "POST" THEN "Form"
    ELSE CourseForm_clean(name, program, NoSuchId)

create_course(u, method, name, program) ==
    /\ IF create_course_outcome(u, method, name, program) = "Save"
       THEN /\ nextCourseId <= MaxCourseId
            /\ courses' = courses \cup {[id |-> nextCourseId, program |-> program,
                                         name |-> name]}
            /\ nextCourseId' = nextCourseId + 1
       ELSE UNCHANGED <<courses, nextCourseId>>
    /\ UNCHANGED <<now, exams, nextExamId, enrollments, nextEnrollId, submissions,
                   nextSubId, results, reqs>>

\* update_course, lines 277-299
update_course_outcome(u, course_id, method, name, program) ==
    IF u.type # "admin" THEN "AccessDenied"
    ELSE IF ~CourseExists(course_id) THEN "NotFound"
    ELSE IF method # "POST" THEN "Form"
    ELSE CourseForm_clean(name, program, course_id)

update_course(u, course_id, method, name, program) ==
    /\ IF update_course_outcome(u, course_id, method, name, program) = "Save"
       THEN courses' = {IF c.id = course_id
                        THEN [c EXCEPT !.name = name, !.program = program]
                        ELSE c : c \in courses}
       ELSE UNCHANGED courses
    /\ UNCHANGED <<now, nextCourseId, exams, nextExamId, enrollments, nextEnrollId,
                   submissions, nextSubId, results, reqs>>

\* BulkCourseCreateForm.clean_course_names, lines 204-218: the lines posted, already
\* stripped and without the empty ones; len(course_names) != len(set(course_names))
clean_course_names(names) ==
    IF names = <<>> THEN "NoNames"
    ELSE IF Len(names) # Cardinality({names[i] : i \in 1..Len(names)})
         THEN "DuplicateInput"
    ELSE "Save"

\* bulk_create_courses, lines 321-341
bulk_create_courses_outcome(u, method, program, names) ==
    IF u.type # "admin" THEN "AccessDenied"
    ELSE IF method # "POST" THEN "Form"
    ELSE clean_course_names(names)

\* BulkCourseCreateForm.save, lines 220-235: a name is skipped when the exact lookup
\* finds a course
RECURSIVE BulkCourseCreateForm_save(_, _, _, _)
BulkCourseCreateForm_save(names, program, rows, next) ==
    IF names = <<>> THEN [rows |-> rows, next |-> next]
    ELSE IF \E c \in rows : c.name = Head(names) /\ c.program = program
         THEN BulkCourseCreateForm_save(Tail(names), program, rows, next)
    ELSE BulkCourseCreateForm_save(Tail(names), program,
             rows \cup {[id |-> next, program |-> program, name |-> Head(names)]},
             next + 1)

bulk_create_courses(u, method, program, names) ==
    /\ IF bulk_create_courses_outcome(u, method, program, names) = "Save"
       THEN LET r == BulkCourseCreateForm_save(names, program, courses, nextCourseId)
            IN  /\ r.next <= MaxCourseId + 1
                /\ courses' = r.rows
                /\ nextCourseId' = r.next
       ELSE UNCHANGED <<courses, nextCourseId>>
    /\ UNCHANGED <<now, exams, nextExamId, enrollments, nextEnrollId, submissions,
                   nextSubId, results, reqs>>

\* -------------------------------------------------------------------- clock
Tick ==
    /\ now < MaxTick * TimeStep
    /\ now' = now + TimeStep
    /\ UNCHANGED <<courses, nextCourseId, exams, nextExamId, enrollments, nextEnrollId, submissions, nextSubId,
                   results, reqs>>

\* --------------------------------------------------------------- the store
\* the courses, and the exams of course 1, scheduled one after the other ahead of
\* now as create_sample_data schedules them; nobody is enrolled yet
InitCourses == {[id |-> c, program |-> 1, name |-> <<LowerCase[c]>>] : c \in CourseIds}

InitExams ==
    {[id |-> i, course |-> 1, start |-> i * TimeStep, end |-> (i + 1) * TimeStep,
      admin |-> 1] : i \in ExamIds}

Init ==
    /\ now = 0
    /\ courses = InitCourses
    /\ nextCourseId = MaxCourses + 1
    /\ exams = InitExams
    /\ nextExamId = MaxExams + 1
    /\ enrollments = {}
    /\ nextEnrollId = 1
    /\ submissions = {}
    /\ nextSubId = 1
    /\ results = {}
    /\ reqs = [p \in Procs |-> Idle]

SubmitExam ==
    \E u \in Users, exam_id \in ExamIds \cup {NoSuchId}, method \in Methods,
       file \in Files, posted_time \in PostedTimes :
        submit_exam(u, exam_id, method, file, posted_time)

EnrollCourse ==
    \E u \in Users, course_id \in CourseIds \cup {NoSuchId}, method \in Methods,
       confirm \in BOOLEAN :
        enroll_course(u, course_id, method, confirm)

UnenrollCourse ==
    \E u \in Users, enrollment_id \in 1..MaxEnrollId, method \in Methods,
       confirm \in BOOLEAN :
        unenroll_course(u, enrollment_id, method, confirm)

DeleteEnrollmentAdmin ==
    \E u \in Users, enrollment_id \in 1..MaxEnrollId, method \in Methods :
        delete_enrollment_admin(u, enrollment_id, method)

BulkEnroll ==
    \E u \in Users, course_id \in CourseIds \cup {NoSuchId}, method \in Methods,
       students \in SUBSET StudentIds :
        bulk_enroll(u, course_id, method, students)

\* submit_exam with an upload out of the wide set
SubmitUpload ==
    \E u \in Users, exam_id \in ExamIds \cup {NoSuchId}, method \in Methods,
       file \in Uploads, posted_time \in PostedTimes :
        submit_exam(u, exam_id, method, file, posted_time)

Next ==
    \/ Tick
    \/ SubmitExam
    \/ EnrollCourse
    \/ UnenrollCourse
    \/ DeleteEnrollmentAdmin
    \/ BulkEnroll

Spec == Init /\ [][Next]_vars

\* the store once an admin has bulk-enrolled every student in course 1
InitUpload ==
    /\ now = 0
    /\ courses = InitCourses
    /\ nextCourseId = MaxCourses + 1
    /\ exams = InitExams
    /\ nextExamId = MaxExams + 1
    /\ enrollments = {NewEnrollment(st, st, 1) : st \in StudentIds}
    /\ nextEnrollId = MaxStudents + 1
    /\ submissions = {}
    /\ nextSubId = 1
    /\ results = {}
    /\ reqs = [p \in Procs |-> Idle]

NextUpload ==
    \/ Tick
    \/ SubmitUpload

SpecUpload == InitUpload /\ [][NextUpload]_vars

\* the marks, grades and feedback an admin may post: marks next to both ends of the
\* range and across a threshold, no grade or an explicit one
Marks == {-1, 0, 8999, 9000, FullMarks, FullMarks + 1}
Grades == {NoGrade, "F"}
Feedbacks == {"", "ok"}

GradeSubmission ==
    \E u \in Users, submission_id \in 1..MaxSubId, method \in Methods, marks \in Marks,
       grade \in Grades, feedback \in Feedbacks :
        grade_submission(u, submission_id, method, marks, grade, feedback)

\* grading, from the store in which every student is enrolled in course 1
NextGrade ==
    \/ Tick
    \/ SubmitExam
    \/ GradeSubmission

SpecGrade == InitUpload /\ [][NextGrade]_vars

\* the windows an admin may post: a start at the first instants of the clock and
\* an end on it and next to both limits of the duration
ExamStarts == {k * TimeStep : k \in 0..MaxExams}
ExamDurations == {0, MinDuration - 1, MinDuration, MaxDuration, MaxDuration + 1}

CreateExam ==
    \E u \in Users, method \in Methods, course_id \in CourseIds \cup {NoSuchId},
       start \in ExamStarts, d \in ExamDurations :
        create_exam(u, method, course_id, start, start + d)

UpdateExam ==
    \E u \in Users, exam_id \in 1..MaxExamId, method \in Methods,
       course_id \in CourseIds \cup {NoSuchId}, start \in ExamStarts, d \in ExamDurations :
        update_exam(u, exam_id, method, course_id, start, start + d)

DeleteExam ==
    \E u \in Users, exam_id \in 1..MaxExamId, method \in Methods :
        delete_exam(u, exam_id, method)

DeleteCourse ==
    \E u \in Users, course_id \in CourseIds \cup {NoSuchId}, method \in Methods :
        delete_course(u, course_id, method)

\* the management of exams
NextExam ==
    \/ Tick
    \/ CreateExam
    \/ UpdateExam
    \/ DeleteExam

SpecExam == Init /\ [][NextExam]_vars

\* the same requests with one window, the second instant of the clock for 15
\* minutes, and one grading: what varies is the course, the exam and the submission
CreateExamCourse ==
    \E u \in Users, method \in Methods, course_id \in CourseIds \cup {NoSuchId} :
        create_exam(u, method, course_id, TimeStep, TimeStep + MinDuration)

UpdateExamCourse ==
    \E u \in Users, exam_id \in 1..MaxExamId, method \in Methods,
       course_id \in CourseIds \cup {NoSuchId} :
        update_exam(u, exam_id, method, course_id, TimeStep, TimeStep + MinDuration)

GradeSubmissionOnce ==
    \E u \in Users, submission_id \in 1..MaxSubId, method \in Methods :
        grade_submission(u, submission_id, method, FullMarks, NoGrade, "")

\* courses, their exams and their enrollments
NextCourse ==
    \/ EnrollCourse
    \/ UnenrollCourse
    \/ DeleteEnrollmentAdmin
    \/ BulkEnroll
    \/ CreateExamCourse
    \/ UpdateExamCourse
    \/ DeleteExam
    \/ DeleteCourse

SpecCourse == Init /\ [][NextCourse]_vars

\* every view that writes a table a submission refers to
NextAll ==
    \/ Tick
    \/ SubmitExam
    \/ EnrollCourse
    \/ UnenrollCourse
    \/ DeleteEnrollmentAdmin
    \/ GradeSubmissionOnce
    \/ UpdateExamCourse
    \/ DeleteExam
    \/ DeleteCourse

SpecAll == Init /\ [][NextAll]_vars

\* ------------------------------------------------------ ExamTimingMiddleware
\* request.POST.get('exam_id') of a request that posts no exam id
NotPosted == -1

\* ExamTimingMiddleware._check_exam_timing, lines 31-67: TRUE for 'valid'; a user
\* without a Student row raises AttributeError at request.user.student
check_exam_timing(u, posted_exam, t) ==
    IF posted_exam = NotPosted THEN FALSE
    ELSE IF ~ExamExists(posted_exam) THEN FALSE
    ELSE IF t > GetExam(posted_exam).end THEN FALSE
    ELSE IF u.type # "student" THEN FALSE
    ELSE IF HasSubmitted(u.id, posted_exam) THEN FALSE
    ELSE TRUE

\* ExamTimingMiddleware.__call__, lines 10-20, on a request whose path is the one
\* of submit_exam: "Forbidden" is the 403 response, "View" is get_response(request)
ExamTimingMiddleware_call(u, method, posted_exam) ==
    IF method = "POST" /\ ~check_exam_timing(u, posted_exam, now) THEN "Forbidden"
    ELSE "View"

\* a request to student/exams/<exam_id>/submit/ served behind the middleware
middleware_submit_exam(u, exam_id, method, posted_exam, file, posted_time) ==
    IF ExamTimingMiddleware_call(u, method, posted_exam) = "View"
    THEN submit_exam(u, exam_id, method, file, posted_time)
    ELSE UNCHANGED vars

MiddlewareSubmitExam ==
    \E u \in Users, exam_id \in ExamIds \cup {NoSuchId}, method \in Methods,
       posted_exam \in ExamIds \cup {NoSuchId, NotPosted}, file \in Files,
       posted_time \in PostedTimes :
        middleware_submit_exam(u, exam_id, method, posted_exam, file, posted_time)

NextMiddleware ==
    \/ Tick
    \/ EnrollCourse
    \/ MiddlewareSubmitExam

SpecMiddleware == Init /\ [][NextMiddleware]_vars

\* the course names an admin may post: a stored name, the same in upper case, and
\* a new one in both cases
CourseNames == {<<"a">>, <<"A">>, <<"c">>, <<"C">>}
CourseNameLists == {<<>>} \cup {<<n>> : n \in CourseNames}
                   \cup {<<n, m>> : n \in CourseNames, m \in CourseNames}

CreateCourse ==
    \E u \in Users, method \in Methods, name \in CourseNames, program \in ProgramIds :
        create_course(u, method, name, program)

UpdateCourse ==
    \E u \in Users, course_id \in 1..MaxCourseId, method \in Methods,
       name \in CourseNames, program \in ProgramIds :
        update_course(u, course_id, method, name, program)

BulkCreateCourses ==
    \E u \in Users, method \in Methods, program \in ProgramIds,
       names \in CourseNameLists :
        bulk_create_courses(u, method, program, names)

\* the management of course names
NextCourseNames ==
    \/ CreateCourse
    \/ UpdateCourse
    \/ BulkCreateCourses

SpecCourseNames == Init /\ [][NextCourseNames]_vars

\* ---------------------------------------------------- interleaved requests
\* A view queries the store, then writes it, and the store serves the
\* statements of other requests in between: neither view opens a transaction.

\* submit_exam up to its exists() query (lines 366-396)
submit_exam_begin(p, u, exam_id, method, file, posted_time) ==
    /\ reqs[p] = Idle
    /\ submit_exam_outcome(u, exam_id, method, file) = "Save"
    /\ reqs' = [reqs EXCEPT ![p] = [pc |-> "submit_save", student |-> u.id,
                                    exam |-> exam_id, file |-> file,
                                    posted_time |-> posted_time]]
    /\ UNCHANGED <<now, courses, nextCourseId, exams, nextExamId, enrollments, nextEnrollId, submissions,
                   nextSubId, results>>

\* submit_exam, lines 397-400: the insert
submit_exam_save(p) ==
    /\ reqs[p].pc = "submit_save"
    /\ ExamSubmission_save(reqs[p].student, reqs[p].exam, reqs[p].file, reqs[p].posted_time)
    /\ reqs' = [reqs EXCEPT ![p] = Idle]
    /\ UNCHANGED <<now, courses, nextCourseId, exams, nextExamId, enrollments, nextEnrollId, results>>

\* enroll_course up to its exists() query (lines 95-113)
enroll_course_begin(p, u, course_id, method, confirm) ==
    /\ reqs[p] = Idle
    /\ enroll_course_outcome(u, course_id, method, confirm) = "Create"
    /\ reqs' = [reqs EXCEPT ![p] = [pc |-> "enroll_create", student |-> u.id,
                                    course |-> course_id]]
    /\ UNCHANGED <<now, courses, nextCourseId, exams, nextExamId, enrollments, nextEnrollId, submissions,
                   nextSubId, results>>

\* enroll_course, lines 114-122: the insert
enroll_course_end(p) ==
    /\ reqs[p].pc = "enroll_create"
    /\ enroll_course_create(reqs[p].student, reqs[p].course)
    /\ reqs' = [reqs EXCEPT ![p] = Idle]
    /\ UNCHANGED <<now, courses, nextCourseId, exams, nextExamId, submissions, nextSubId, results>>

\* bulk_enroll up to the end of form.is_valid() (lines 358-367)
bulk_enroll_begin(p, u, course_id, method, students) ==
    /\ reqs[p] = Idle
    /\ bulk_enroll_outcome(u, course_id, method, students) = "Save"
    /\ reqs' = [reqs EXCEPT ![p] = [pc |-> "bulk_save", course |-> course_id,
                                    todo |-> Ordered(students), created |-> {}]]
    /\ UNCHANGED <<now, courses, nextCourseId, exams, nextExamId, enrollments, nextEnrollId, submissions,
                   nextSubId, results>>

\* BulkEnrollmentForm.save, lines 195-200: one turn of the loop; an IntegrityError
\* ends the request, the rows of the earlier turns stay
bulk_enroll_step(p) ==
    /\ reqs[p].pc = "bulk_save"
    /\ IF UniqueViolation(enrollments, Head(reqs[p].todo), reqs[p].course)
       THEN /\ reqs' = [reqs EXCEPT ![p] = [pc |-> "bulk_failed", course |-> reqs[p].course,
                                            todo |-> reqs[p].todo,
                                            created |-> reqs[p].created]]
            /\ UNCHANGED <<enrollments, nextEnrollId>>
       ELSE /\ nextEnrollId <= MaxEnrollId
            /\ enrollments' = enrollments \cup
                   {NewEnrollment(nextEnrollId, Head(reqs[p].todo), reqs[p].course)}
            /\ nextEnrollId' = nextEnrollId + 1
            /\ reqs' = [reqs EXCEPT ![p] =
                   IF Tail(reqs[p].todo) = <<>> THEN Idle
                   ELSE [pc |-> "bulk_save", course |-> reqs[p].course,
                         todo |-> Tail(reqs[p].todo),
                         created |-> reqs[p].created \cup {Head(reqs[p].todo)}]]
    /\ UNCHANGED <<now, courses, nextCourseId, exams, nextExamId, submissions, nextSubId, results>>

\* the response to a failed bulk_enroll (HTTP 500) is sent
bulk_enroll_failed(p) ==
    /\ reqs[p].pc = "bulk_failed"
    /\ reqs' = [reqs EXCEPT ![p] = Idle]
    /\ UNCHANGED <<now, courses, nextCourseId, exams, nextExamId, enrollments, nextEnrollId, submissions,
                   nextSubId, results>>

SubmitExamBegin ==
    \E p \in Procs, u \in Users, exam_id \in ExamIds \cup {NoSuchId}, method \in Methods,
       file \in Files, posted_time \in PostedTimes :
        submit_exam_begin(p, u, exam_id, method, file, posted_time)

SubmitExamSave == \E p \in Procs : submit_exam_save(p)

EnrollCourseBegin ==
    \E p \in Procs, u \in Users, course_id \in CourseIds \cup {NoSuchId},
       method \in Methods, confirm \in BOOLEAN :
        enroll_course_begin(p, u, course_id, method, confirm)

EnrollCourseEnd == \E p \in Procs : enroll_course_end(p)

BulkEnrollBegin ==
    \E p \in Procs, u \in Users, course_id \in CourseIds \cup {NoSuchId},
       method \in Methods, students \in SUBSET StudentIds :
        bulk_enroll_begin(p, u, course_id, method, students)

BulkEnrollStep == \E p \in Procs : bulk_enroll_step(p)

BulkEnrollFailed == \E p \in Procs : bulk_enroll_failed(p)

NextConc ==
    \/ Tick
    \/ SubmitExamBegin
    \/ SubmitExamSave
    \/ EnrollCourseBegin
    \/ EnrollCourseEnd
    \/ BulkEnrollBegin
    \/ BulkEnrollStep
    \/ BulkEnrollFailed

SpecConc == Init /\ [][NextConc]_vars

\* unenroll_course up to its exists() query and the valid form (lines 138-162)
unenroll_course_begin(p, u, enrollment_id, method, confirm) ==
    /\ reqs[p] = Idle
    /\ unenroll_course_outcome(u, enrollment_id, method, confirm) = "Delete"
    /\ reqs' = [reqs EXCEPT ![p] = [pc |-> "unenroll_delete", student |-> u.id,
                                    enrollment |-> enrollment_id]]
    /\ UNCHANGED <<now, courses, nextCourseId, exams, nextExamId, enrollments,
                   nextEnrollId, submissions, nextSubId, results>>

\* unenroll_course, line 164: enrollment.delete()
unenroll_course_end(p) ==
    /\ reqs[p].pc = "unenroll_delete"
    /\ enrollments' = {en \in enrollments : en.id # reqs[p].enrollment}
    /\ reqs' = [reqs EXCEPT ![p] = Idle]
    /\ UNCHANGED <<now, courses, nextCourseId, exams, nextExamId, nextEnrollId,
                   submissions, nextSubId, results>>

UnenrollCourseBegin ==
    \E p \in Procs, u \in Users, enrollment_id \in 1..MaxEnrollId, method \in Methods,
       confirm \in BOOLEAN :
        unenroll_course_begin(p, u, enrollment_id, method, confirm)

UnenrollCourseEnd == \E p \in Procs : unenroll_course_end(p)

\* a student's unenroll_course and submit_exam served at the same time
NextConcUnenroll ==
    \/ Tick
    \/ EnrollCourse
    \/ SubmitExamBegin
    \/ SubmitExamSave
    \/ UnenrollCourseBegin
    \/ UnenrollCourseEnd

SpecConcUnenroll == Init /\ [][NextConcUnenroll]_vars

\* ------------------------------------------------------------------ dashboards
\* accounts/models.py UserManager: create_user leaves is_superuser at its
\* default, create_superuser sets it and keeps a user_type that was passed
USER_TYPE_CHOICES == {"student", "admin"}

create_user(user_type) == [type |-> user_type, is_superuser |-> FALSE]

create_superuser(user_type) == [type |-> user_type, is_superuser |-> TRUE]

Accounts == {create_user(t) : t \in USER_TYPE_CHOICES} \cup
            {create_superuser(t) : t \in USER_TYPE_CHOICES}

\* what a request ends with: a redirect names its target view
Rendered == "Rendered"

\* the root urlconf is not part of the repository: exams.urls may be included
\* under no prefix or under one of the prefixes RoleBasedAccessMiddleware guards
UrlPrefixes == {"", "admin-panel/", "student-portal/"}

Pages == {"dashboard", "admin_dashboard", "student_dashboard"}

\* accounts/views.py dashboard, lines 99-106
dashboard(u) ==
    IF u.type = "student" THEN "student_dashboard"
    ELSE IF u.type = "admin" \/ u.is_superuser THEN "admin_dashboard"
    ELSE "login"

\* accounts/views.py login_view, lines 16-17: the user is authenticated
login_view(u) == "dashboard"

\* exams/views.py admin_dashboard, lines 16-21
admin_dashboard(u) ==
    IF u.type # "admin" \/ u.is_superuser THEN "student_dashboard"
    ELSE Rendered

\* exams/views.py student_dashboard, lines 223-228
student_dashboard(u) ==
    IF u.type # "student" \/ u.is_superuser THEN "admin_dashboard"
    ELSE Rendered

\* accounts/views.py access_denied, lines 191-193
access_denied(u) == Rendered

\* accounts/middleware.py RoleBasedAccessMiddleware.__call__, lines 9-18; the
\* two dashboards are routes of exams.urls, the other pages of accounts.urls
RoleBasedAccessMiddleware_call(u, page, prefix) ==
    IF page \in {"admin_dashboard", "student_dashboard"}
       /\ \/ prefix = "admin-panel/" /\ u.type # "admin"
          \/ prefix = "student-portal/" /\ u.type # "student"
    THEN "access_denied"
    ELSE "View"

\* the response to a GET of page by the logged-in user u
get_response(u, page, prefix) ==
    IF RoleBasedAccessMiddleware_call(u, page, prefix) = "access_denied" THEN "access_denied"
    ELSE CASE page = "dashboard" -> dashboard(u)
           [] page = "login" -> login_view(u)
           [] page = "admin_dashboard" -> admin_dashboard(u)
           [] page = "student_dashboard" -> student_dashboard(u)
           [] page = "access_denied" -> access_denied(u)

\* the browser of user u asks for a dashboard page
browse_begin(p, u, page, prefix) ==
    /\ reqs[p] = Idle
    /\ reqs' = [reqs EXCEPT ![p] = [pc |-> "browse", u |-> u, prefix |-> prefix,
                                    path |-> <<page>>]]
    /\ UNCHANGED <<now, store>>

\* one request of the browser: the page is rendered, or the browser follows
\* the redirect, or it gives up after MaxRedirects of them
browse_step(p) ==
    /\ reqs[p].pc = "browse"
    /\ LET r == reqs[p]
           response == get_response(r.u, r.path[Len(r.path)], r.prefix)
       IN reqs' = [reqs EXCEPT ![p] =
                     IF response = Rendered THEN [r EXCEPT !.pc = "rendered"]
                     ELSE IF Len(r.path) > MaxRedirects
                          THEN [r EXCEPT !.pc = "too_many_redirects"]
                          ELSE [r EXCEPT !.path = Append(r.path, response)]]
    /\ UNCHANGED <<now, store>>

\* the browser shows the page or its error
browse_end(p) ==
    /\ reqs[p].pc \in {"rendered", "too_many_redirects"}
    /\ reqs' = [reqs EXCEPT ![p] = Idle]
    /\ UNCHANGED <<now, store>>

BrowseBegin ==
    \E p \in Procs, u \in Accounts, page \in Pages, prefix \in UrlPrefixes :
        browse_begin(p, u, page, prefix)

BrowseStep == \E p \in Procs : browse_step(p)

BrowseEnd == \E p \in Procs : browse_end(p)

NextDashboard ==
    \/ BrowseBegin
    \/ BrowseStep
    \/ BrowseEnd

SpecDashboard == Init /\ [][NextDashboard]_vars

\* ------------------------------------------------------------ exam ownership
\* a second admin, registered beside the one who owns the first exams
OtherAdmin == [type |-> "admin", id |-> MaxAdmins + 1]

OwnerUsers == Users \cup {OtherAdmin}

CreateExamOwner ==
    \E u \in OwnerUsers, method \in Methods :
        create_exam(u, method, 1, TimeStep, TimeStep + MinDuration)

UpdateExamOwner ==
    \E u \in OwnerUsers, exam_id \in 1..MaxExamId, method \in Methods :
        update_exam(u, exam_id, method, 1, TimeStep, TimeStep + MinDuration)

DeleteExamOwner ==
    \E u \in OwnerUsers, exam_id \in 1..MaxExamId, method \in Methods :
        delete_exam(u, exam_id, method)

GradeSubmissionOwner ==
    \E u \in OwnerUsers, submission_id \in 1..MaxSubId, method \in Methods,
       marks \in {0, FullMarks} :
        grade_submission(u, submission_id, method, marks, NoGrade, "")

\* the exams and results of two admins
NextOwner ==
    \/ Tick
    \/ EnrollCourse
    \/ SubmitExam
    \/ CreateExamOwner
    \/ UpdateExamOwner
    \/ DeleteExamOwner
    \/ GradeSubmissionOwner

SpecOwner == Init /\ [][NextOwner]_vars

\* ================================================================== claims
\* the row sets a claim speaks of, read off the tables themselves
Enrolled(student, course) ==
    \E en \in enrollments : en.student = student /\ en.course = course

Submitted(student, exam_id) ==
    \E sb \in submissions : sb.student = student /\ sb.exam = exam_id

Students == {u \in Users : u.type = "student"}

\* C1: for an enrolled student, submit_exam before start_time or after end_time is
\* rejected as ExamNotActive and persists no ExamSubmission; at now = start_time
\* and at now = end_time the exam counts as active.
C1_OutsideWindowRejected ==
    \A u \in Students, e \in exams, method \in Methods, file \in Files, pt \in PostedTimes :
        Enrolled(u.id, e.course) =>
            /\ (now < e.start \/ now > e.end) =>
                /\ submit_exam_outcome(u, e.id, method, file) = "ExamNotActive"
                /\ ~ENABLED (submit_exam(u, e.id, method, file, pt)
                             /\ submissions' # submissions)
            /\ (now = e.start \/ now = e.end) =>
                submit_exam_outcome(u, e.id, method, file) # "ExamNotActive"

\* C1 witness: a submission taken at the very end of its exam's window, and an
\* enrolled student without a submission for an exam whose window is over.
C1_Witness ==
    /\ \E sb \in submissions : \E e \in exams : e.id = sb.exam /\ sb.time = e.end
    /\ \E u \in Students, e \in exams :
        /\ Enrolled(u.id, e.course) /\ ~Submitted(u.id, e.id) /\ now > e.end
        /\ ENABLED submit_exam(u, e.id, "POST", CHOOSE f \in Files : TRUE, 0)

\* C2: submit_exam by a student without an Enrollment for the exam's course is
\* rejected as NotEnrolled and creates no ExamSubmission, whatever the window, the
\* prior submissions and the upload are.
C2_NotEnrolledRejected ==
    \A u \in Students, e \in exams, method \in Methods, file \in Files, pt \in PostedTimes :
        ~Enrolled(u.id, e.course) =>
            /\ submit_exam_outcome(u, e.id, method, file) = "NotEnrolled"
            /\ ~ENABLED (submit_exam(u, e.id, method, file, pt)
                         /\ submissions' # submissions)

\* C2 witness: a student who submitted and then lost the enrollment, while the exam
\* is still active: everything but the enrollment would let the request through.
C2_Witness ==
    \E u \in Students, e \in exams :
        /\ ~Enrolled(u.id, e.course)
        /\ e.start <= now /\ now <= e.end
        /\ \E sb \in submissions : sb.student = u.id
        /\ ~Submitted(u.id, e.id)
        /\ ENABLED submit_exam(u, e.id, "POST", CHOOSE f \in Files : clean_file_path(f), 0)

\* C3: a successful submit_exam of (student, exam) makes the next submit_exam of the
\* same (student, exam) end as AlreadySubmitted, and a submit_exam of a pair that has
\* a submission adds none.
C3_SecondSubmitRejected ==
    [][\A u \in Students, e \in exams, file \in Files, pt \in PostedTimes :
        /\ (submit_exam(u, e.id, "POST", file, pt) /\ submissions' # submissions) =>
              \A m2 \in Methods, f2 \in Files :
                  (submit_exam_outcome(u, e.id, m2, f2))' = "AlreadySubmitted"
        /\ \A m2 \in Methods :
              (Submitted(u.id, e.id) /\ submit_exam(u, e.id, m2, file, pt)) =>
                  submissions' = submissions
      ]_vars

\* C3 witness: the student's submission of this instant is in the store, the
\* student is enrolled and the exam active: a second call meets only the
\* prior-submission check.
C3_Witness ==
    \E sb \in submissions, e \in exams :
        /\ e.id = sb.exam /\ sb.time = now /\ sb.id = nextSubId - 1
        /\ Enrolled(sb.student, e.course)
        /\ e.start <= now /\ now <= e.end
        /\ nextSubId <= MaxSubId

\* C4: there is at most one ExamSubmission per (student, exam), also when two
\* submit_exam requests of the pair interleave between exists() and the insert.
C4_OneSubmissionPerPair ==
    \A a \in submissions, b \in submissions :
        (a.student = b.student /\ a.exam = b.exam) => a = b

\* C5: when all checks pass, a POST adds exactly one ExamSubmission, of the acting
\* student, for the exam of the request, with submission_time = now.
C5_SuccessAddsOneRow ==
    \A u \in Students, e \in exams, file \in Files, pt \in PostedTimes :
        ( /\ Enrolled(u.id, e.course)
          /\ e.start <= now /\ now <= e.end
          /\ ~Submitted(u.id, e.id)
          /\ file.size <= 10485760 /\ file.name = <<"a",".","p","d","f">> ) =>
            /\ submit_exam_outcome(u, e.id, "POST", file) = "Save"
            /\ nextSubId <= MaxSubId =>
                 ENABLED (submit_exam(u, e.id, "POST", file, pt) /\ submissions' # submissions)
            /\ ~ENABLED ( /\ submit_exam(u, e.id, "POST", file, pt)
                          /\ ~\E sb \in submissions' :
                                /\ sb \notin submissions
                                /\ submissions' = submissions \cup {sb}
                                /\ sb.student = u.id /\ sb.exam = e.id /\ sb.time = now )

\* C5 witness: the newest submission carries the present instant, later than any
\* time the client posted.
C5_Witness ==
    \E sb \in submissions :
        /\ sb.id = nextSubId - 1 /\ sb.time = now
        /\ \A pt \in PostedTimes : pt # now

\* C6: a rejected submit_exam (NotEnrolled, ExamNotActive, AlreadySubmitted,
\* InvalidFile) leaves Enrollments, Exams, ExamSubmissions and Results as they were.
Rejections == {"NotEnrolled", "ExamNotActive", "AlreadySubmitted", "InvalidFile"}

C6_RejectionChangesNothing ==
    \A u \in Students, e \in exams, method \in Methods, file \in Files, pt \in PostedTimes :
        ( \/ submit_exam_outcome(u, e.id, method, file) \in Rejections
          \/ ~Enrolled(u.id, e.course)
          \/ now < e.start \/ now > e.end
          \/ Submitted(u.id, e.id)
          \/ (method = "POST" /\ (file.size > 10485760 \/ file.name # <<"a",".","p","d","f">>)) ) =>
            ~ENABLED (submit_exam(u, e.id, method, file, pt) /\ store' # store)

\* C6 witness: one state in which a request can meet a missing enrollment, another a
\* prior submission, and a third an invalid file after passing every other check.
C6_Witness ==
    /\ \E u \in Students, e \in exams, f \in Files :
          /\ submit_exam_outcome(u, e.id, "POST", f) = "NotEnrolled"
          /\ ENABLED submit_exam(u, e.id, "POST", f, 0)
    /\ \E u \in Students, e \in exams, f \in Files :
          /\ submit_exam_outcome(u, e.id, "POST", f) = "AlreadySubmitted"
          /\ ENABLED submit_exam(u, e.id, "POST", f, 0)
    /\ \E u \in Students, e \in exams, f \in Files :
          /\ submit_exam_outcome(u, e.id, "POST", f) = "InvalidFile"
          /\ ENABLED submit_exam(u, e.id, "POST", f, 0)

\* C7: the upload is accepted exactly when its size is at most 10 MiB and its
\* extension, whatever its case, is .pdf, .doc, .docx, .txt or .zip; any other
\* upload ends the attempt as InvalidFile and no ExamSubmission is created.
AcceptableNames ==
    { <<"a",".","p","d","f">>, <<"a",".","P","D","F">>, <<"a",".","d","o","c">>,
      <<"a",".","D","o","c","X">>, <<"a",".","d","o","c","x">>, <<"a",".","t","x","t">>,
      <<"b",".","Z","I","P">>, <<"a",".","t","a","r",".","z","i","p">> }

C7_FileAcceptedIff ==
    \A u \in Students, e \in exams, file \in Uploads, pt \in PostedTimes :
        (Enrolled(u.id, e.course) /\ e.start <= now /\ now <= e.end /\ ~Submitted(u.id, e.id)) =>
            IF file.size <= 10 * 1024 * 1024 /\ file.name \in AcceptableNames
            THEN /\ submit_exam_outcome(u, e.id, "POST", file) = "Save"
                 /\ nextSubId <= MaxSubId =>
                      ENABLED (submit_exam(u, e.id, "POST", file, pt)
                               /\ submissions' # submissions)
            ELSE /\ submit_exam_outcome(u, e.id, "POST", file) = "InvalidFile"
                 /\ ~ENABLED (submit_exam(u, e.id, "POST", file, pt)
                              /\ submissions' # submissions)

\* C7 witness: an upload named in upper case is stored, and a student still passes
\* every check before the file, so that the file alone decides the next attempt.
C7_Witness ==
    /\ \E sb \in submissions : sb.file = <<"b",".","Z","I","P">>
    /\ nextSubId <= MaxSubId
    /\ \E u \in Students, e \in exams :
          Enrolled(u.id, e.course) /\ e.start <= now /\ now <= e.end /\ ~Submitted(u.id, e.id)

\* C8: for an exam with start_time < end_time, exactly one of Upcoming (now <
\* start_time), Active (start_time <= now <= end_time), Completed (now > end_time)
\* holds at every instant; Exam.is_active is true exactly when it is Active, and
\* the listing's status filter selects the exam under exactly that status.
C8_ClassificationExact ==
    \A e \in exams :
        e.start < e.end =>
            LET upcoming == now < e.start
                active == e.start <= now /\ now <= e.end
                completed == now > e.end
            IN  /\ Cardinality({k \in 1..3 : <<upcoming, active, completed>>[k]}) = 1
                /\ is_active(e, now) <=> active
                /\ exam_list_admin_filter("upcoming", e, now) <=> upcoming
                /\ exam_list_admin_filter("active", e, now) <=> active
                /\ exam_list_admin_filter("completed", e, now) <=> completed

\* C8 witness: the clock stands on the end of one exam's window and past the end
\* of another's.
C8_Witness ==
    /\ \E e \in exams : now = e.end /\ is_active(e, now)
    /\ \E e \in exams : now > e.end /\ ~is_active(e, now)

\* C9: enroll_course on an existing Enrollment(student, course) ends as
\* AlreadyEnrolled and leaves the Enrollments as they are; otherwise a confirmed
\* POST creates exactly one Enrollment(student, course) and changes no other.
C9_EnrollOnceOnly ==
    \A u \in Students, c \in courses, method \in Methods, confirm \in BOOLEAN :
        IF Enrolled(u.id, c.id)
        THEN /\ enroll_course_outcome(u, c.id, method, confirm) = "AlreadyEnrolled"
             /\ ~ENABLED (enroll_course(u, c.id, method, confirm)
                          /\ enrollments' # enrollments)
        ELSE /\ enroll_course_outcome(u, c.id, "POST", TRUE) = "Create"
             /\ nextEnrollId <= MaxEnrollId =>
                  ENABLED (enroll_course(u, c.id, "POST", TRUE) /\ enrollments' # enrollments)
             /\ ~ENABLED ( /\ enroll_course(u, c.id, "POST", TRUE)
                           /\ ~\E en \in enrollments' :
                                 /\ en \notin enrollments
                                 /\ enrollments' = enrollments \cup {en}
                                 /\ en.student = u.id /\ en.course = c.id )

\* C9 witness: one student is enrolled in a course through enroll_course's insert,
\* another pair is not, and the store still takes an insert.
C9_Witness ==
    /\ \E en \in enrollments : en.id = nextEnrollId - 1
    /\ \E u \in Students, c \in courses : ~Enrolled(u.id, c.id)
    /\ nextEnrollId <= MaxEnrollId

\* C10: there is at most one Enrollment per (student, course), under every
\* interleaving of enroll_course and bulk_enroll requests, two requests for one
\* pair that both passed exists() before either inserted included.
C10_OneEnrollmentPerPair ==
    \A a \in enrollments, b \in enrollments :
        (a.student = b.student /\ a.course = b.course) => a = b

\* C10 witness: a request that passed exists() is about to insert a pair that
\* another request has inserted meanwhile.
C10_Witness ==
    \E p \in Procs :
        /\ reqs[p].pc = "enroll_create"
        /\ Enrolled(reqs[p].student, reqs[p].course)

\* C11: unenroll_course ends as HasSubmissions and keeps the Enrollment whenever
\* the student has a submission for any exam of the enrollment's course; without
\* such a submission a confirmed POST deletes exactly that Enrollment.
SubmittedForCourse(student, course) ==
    \E sb \in submissions, e \in exams :
        sb.student = student /\ sb.exam = e.id /\ e.course = course

C11_UnenrollLockedBySubmission ==
    \A u \in Students, en \in enrollments, method \in Methods, confirm \in BOOLEAN :
        en.student = u.id =>
            IF SubmittedForCourse(u.id, en.course)
            THEN /\ unenroll_course_outcome(u, en.id, method, confirm) = "HasSubmissions"
                 /\ ~ENABLED (unenroll_course(u, en.id, method, confirm)
                              /\ enrollments' # enrollments)
            ELSE /\ unenroll_course_outcome(u, en.id, "POST", TRUE) = "Delete"
                 /\ ENABLED (unenroll_course(u, en.id, "POST", TRUE)
                             /\ enrollments' = enrollments \ {en})
                 /\ ~ENABLED (unenroll_course(u, en.id, "POST", TRUE)
                              /\ enrollments' # enrollments \ {en})

\* C11 witness: one enrolled student has a submission for the course and another
\* enrolled student has none.
C11_Witness ==
    /\ \E en \in enrollments : SubmittedForCourse(en.student, en.course)
    /\ \E en \in enrollments : ~SubmittedForCourse(en.student, en.course)

\* C12: enroll_course followed by unenroll_course, with no submission in between,
\* leaves the Enrollments as they were before the enroll, and the pair can then be
\* enrolled again.
C12_EnrollUnenrollRoundTrip ==
    [][\A u \in Students, c \in courses :
        /\ (enroll_course(u, c.id, "POST", TRUE) /\ enrollments' # enrollments) =>
              \E en \in enrollments' :
                  /\ en.student = u.id /\ en.course = c.id
                  /\ enrollments' \ {en} = enrollments
                  /\ (unenroll_course_outcome(u, en.id, "POST", TRUE))' = "Delete"
        /\ \A en \in enrollments :
              (/\ en.student = u.id /\ en.course = c.id
               /\ unenroll_course(u, en.id, "POST", TRUE)
               /\ enrollments' # enrollments) =>
                  /\ enrollments' = enrollments \ {en}
                  /\ (enroll_course_outcome(u, c.id, "POST", TRUE))' = "Create"
      ]_vars

\* C13: bulk_enroll is rejected as a whole when a student of the batch is enrolled
\* in the course, and creates no Enrollment then; when none is enrolled it creates
\* exactly one Enrollment per student of the batch.
C13_BulkAllOrNothing ==
    \A a \in {u \in Users : u.type = "admin"}, c \in courses,
       students \in (SUBSET StudentIds) \ {{}} :
        IF \E st \in students : Enrolled(st, c.id)
        THEN /\ bulk_enroll_outcome(a, c.id, "POST", students) \notin {"Save", "Form"}
             /\ ~ENABLED (bulk_enroll(a, c.id, "POST", students)
                          /\ enrollments' # enrollments)
        ELSE /\ bulk_enroll_outcome(a, c.id, "POST", students) = "Save"
             /\ nextEnrollId + Cardinality(students) <= MaxEnrollId + 1 =>
                  ENABLED (bulk_enroll(a, c.id, "POST", students)
                           /\ enrollments' # enrollments)
             /\ ~ENABLED ( /\ bulk_enroll(a, c.id, "POST", students)
                           /\ ~ ( /\ enrollments \subseteq enrollments'
                                  /\ \A en \in enrollments' \ enrollments :
                                        en.course = c.id /\ en.student \in students
                                  /\ \A st \in students :
                                        Cardinality({en \in enrollments' \ enrollments :
                                                        en.student = st}) = 1 ) )

\* C13 witness: in one course a student is enrolled and another is not, and the
\* store still takes an insert: the batch of both is rejected, the batch of the
\* second alone is created.
C13_Witness ==
    \E c \in courses, st \in StudentIds, other \in StudentIds :
        /\ Enrolled(st, c.id) /\ ~Enrolled(other, c.id)
        /\ nextEnrollId <= MaxEnrollId
        /\ ENABLED (bulk_enroll([type |-> "admin", id |-> 1], c.id, "POST", {other})
                    /\ enrollments' # enrollments)

\* the admins, and the submissions an admin may grade: those of the admin's exams
Admins == {u \in Users : u.type = "admin"}

Gradable(a, sb) == \E e \in exams : e.id = sb.exam /\ e.admin = a.id

\* C14: every Result has marks in [0, 100]: grade_submission with marks below 0 or
\* above 100 ends as InvalidMarks and neither creates nor changes a Result, and
\* marks of exactly 0 and exactly 100 are accepted and stored.
C14_MarksInRange ==
    /\ \A r \in results : 0 <= r.marks /\ r.marks <= 100 * 100
    /\ \A a \in Admins, sb \in submissions, marks \in Marks, grade \in Grades,
          feedback \in Feedbacks :
          Gradable(a, sb) =>
              /\ (marks < 0 \/ marks > 100 * 100) =>
                    /\ grade_submission_outcome(a, sb.id, "POST", marks) = "InvalidMarks"
                    /\ ~ENABLED (grade_submission(a, sb.id, "POST", marks, grade, feedback)
                                 /\ results' # results)
              /\ (marks = 0 \/ marks = 100 * 100) =>
                    /\ grade_submission_outcome(a, sb.id, "POST", marks) = "Save"
                    /\ ENABLED (grade_submission(a, sb.id, "POST", marks, grade, feedback)
                                /\ \E r \in results' :
                                      r.submission = sb.id /\ r.marks = marks)

\* C14 witness: one Result stores 0 marks and another stores 100.
C14_Witness ==
    /\ \E r \in results : r.marks = 0
    /\ \E r \in results : r.marks = 100 * 100

\* C15: the stored grade is the explicit grade when one is given, whatever the
\* marks; without one it is derived from the marks by inclusive lower bounds (90 A+,
\* 85 A, 80 A-, 75 B+, 70 B, 65 B-, 60 C+, 55 C, 50 C-, 40 D, else F), on a first
\* grading and on a regrade alike.
GradeTable ==
    << <<9000, "A+">>, <<8500, "A">>, <<8000, "A-">>, <<7500, "B+">>, <<7000, "B">>,
       <<6500, "B-">>, <<6000, "C+">>, <<5500, "C">>, <<5000, "C-">>, <<4000, "D">> >>

DerivedGrade(marks) ==
    LET reached == {i \in 1..Len(GradeTable) : marks >= GradeTable[i][1]}
    IN  IF reached = {} THEN "F"
        ELSE GradeTable[CHOOSE i \in reached : \A j \in reached : i <= j][2]

\* every threshold, the mark just below it, and both ends of the range
BoundaryMarks ==
    {0, 100 * 100} \cup {GradeTable[i][1] : i \in 1..Len(GradeTable)}
                   \cup {GradeTable[i][1] - 1 : i \in 1..Len(GradeTable)}

C15_GradeStored ==
    /\ DerivedGrade(9000) = "A+" /\ DerivedGrade(8999) = "A" /\ DerivedGrade(3999) = "F"
    /\ \A a \in Admins, sb \in submissions, marks \in BoundaryMarks,
          grade \in Grades \cup {"A+"} :
          Gradable(a, sb) =>
              /\ grade_submission_outcome(a, sb.id, "POST", marks) = "Save"
              /\ ~ENABLED ( /\ grade_submission(a, sb.id, "POST", marks, grade, "")
                            /\ ~\E r \in results' :
                                  /\ r.submission = sb.id
                                  /\ r.grade = IF grade # "" THEN grade
                                               ELSE DerivedGrade(marks) )

\* C15 witness: one Result stores an explicit F with 90 marks, another the A derived
\* from 89.99 marks.
C15_Witness ==
    /\ \E r \in results : r.marks = 9000 /\ r.grade = "F"
    /\ \E r \in results : r.marks = 8999 /\ r.grade = "A"

\* C16: each ExamSubmission has at most one Result; the first successful grading of
\* a submission creates its Result, and a later one updates that Result's marks,
\* grade and feedback and adds none.
C16_GradeIsUpsert ==
    /\ \A sb \in submissions : Cardinality({r \in results : r.submission = sb.id}) <= 1
    /\ \A r \in results : \E sb \in submissions : sb.id = r.submission
    /\ \A a \in Admins, sb \in submissions, marks \in Marks, grade \in Grades,
          feedback \in Feedbacks :
          (Gradable(a, sb) /\ 0 <= marks /\ marks <= 100 * 100) =>
              LET old == {r \in results : r.submission = sb.id}
                  step == grade_submission(a, sb.id, "POST", marks, grade, feedback)
              IN  /\ ENABLED step
                  /\ ~ENABLED ( /\ step
                                /\ ~\E r \in results' :
                                      /\ r.submission = sb.id /\ r.marks = marks
                                      /\ r.feedback = feedback
                                      /\ grade # "" => r.grade = grade
                                      /\ results' \ {r} = results \ old
                                      /\ \A o \in old : o.id = r.id
                                      /\ old = {} => \A o \in results : o.id # r.id )

\* C16 witness: one submission has a Result and another has none yet.
C16_Witness ==
    /\ \E sb \in submissions : \E r \in results : r.submission = sb.id
    /\ \E sb \in submissions : ~\E r \in results : r.submission = sb.id

\* C17: every exam accepted by create_exam or update_exam has end_time > start_time
\* and a duration from 15 minutes to 24 hours, both included: end_time <= start_time
\* is rejected as InvalidWindow, a shorter duration as TooShort, a longer one as
\* TooLong, and a rejected create or update leaves the exams as they are.
WindowVerdict(start, end) ==
    IF end <= start THEN "InvalidWindow"
    ELSE IF end - start < 15 * 60 THEN "TooShort"
    ELSE IF end - start > 24 * 60 * 60 THEN "TooLong"
    ELSE "Save"

C17_WindowValidated ==
    /\ \A e \in exams :
          e.end > e.start /\ e.end - e.start >= 15 * 60 /\ e.end - e.start <= 24 * 60 * 60
    /\ \A a \in Admins, c \in courses, start \in ExamStarts, d \in ExamDurations :
          LET end == start + d
              verdict == WindowVerdict(start, end)
              create == create_exam(a, "POST", c.id, start, end)
          IN  /\ start >= now => create_exam_outcome(a, "POST", c.id, start, end) = verdict
              /\ verdict # "Save" => ~ENABLED (create /\ exams' # exams)
              /\ (verdict = "Save" /\ start >= now /\ nextExamId <= MaxExamId) =>
                    ENABLED (create /\ \E e \in exams' \ exams :
                                          e.start = start /\ e.end = end)
              /\ \A e \in exams :
                    e.admin = a.id =>
                        LET update == update_exam(a, e.id, "POST", c.id, start, end)
                        IN  /\ update_exam_outcome(a, e.id, "POST", c.id, start, end)
                                 = verdict
                            /\ verdict # "Save" => ~ENABLED (update /\ exams' # exams)
                            /\ verdict = "Save" =>
                                  ENABLED (update /\ \E x \in exams' :
                                              x.id = e.id /\ x.start = start /\ x.end = end)

\* C17 witness: a created exam lasts exactly 24 hours and an updated one exactly 15
\* minutes, from a start other than the one it was scheduled with.
C17_Witness ==
    /\ \E e \in exams : e.id > MaxExams /\ e.end - e.start = 24 * 60 * 60
    /\ \E e \in exams : e.id <= MaxExams /\ e.end - e.start = 15 * 60
                        /\ e.start # e.id * TimeStep

\* C18: PastStart applies to new exams only: create_exam with start_time < now fails
\* as PastStart and creates no exam, start_time = now is accepted, and update_exam
\* accepts a start_time in the past when window and duration are valid.
C18_PastStartNewOnly ==
    \A a \in Admins, c \in courses, start \in ExamStarts, d \in ExamDurations :
        LET end == start + d
            valid == end > start /\ d >= 15 * 60 /\ d <= 24 * 60 * 60
            create == create_exam(a, "POST", c.id, start, end)
        IN  /\ start < now =>
                /\ ~ENABLED (create /\ exams' # exams)
                /\ end > start =>
                      create_exam_outcome(a, "POST", c.id, start, end) = "PastStart"
            /\ (start = now /\ valid) =>
                /\ create_exam_outcome(a, "POST", c.id, start, end) = "Save"
                /\ nextExamId <= MaxExamId => ENABLED (create /\ exams' # exams)
            /\ \A e \in exams :
                  (e.admin = a.id /\ start < now /\ valid) =>
                      /\ update_exam_outcome(a, e.id, "POST", c.id, start, end) = "Save"
                      /\ ENABLED (update_exam(a, e.id, "POST", c.id, start, end)
                                  /\ \E x \in exams' : x.id = e.id /\ x.start = start)

\* C18 witness: the clock has moved on, an exam was created, and an exam scheduled
\* for later was moved to a start that now lies in the past.
C18_Witness ==
    /\ now > 0
    /\ \E e \in exams : e.id > MaxExams
    /\ \E e \in exams : e.id <= MaxExams /\ e.start = 0

\* C19: a Course that an Enrollment or an Exam references cannot be deleted:
\* delete_course on it fails and leaves the Course, its Enrollments and its Exams,
\* so every Enrollment and every Exam references a Course of the store.
C19_CourseProtected ==
    /\ \A en \in enrollments : \E c \in courses : c.id = en.course
    /\ \A e \in exams : \E c \in courses : c.id = e.course
    /\ \A a \in Admins, c \in courses, method \in Methods :
          ((\E en \in enrollments : en.course = c.id) \/ (\E e \in exams : e.course = c.id)) =>
              /\ delete_course_outcome(a, c.id, "POST") = "Protected"
              /\ ~ENABLED ( /\ delete_course(a, c.id, method)
                            /\ \/ courses' # courses
                               \/ enrollments' # enrollments
                               \/ exams' # exams )

\* C19 witness: one course was deleted once nothing referred to it, and the other,
\* which an exam and an enrollment reference, faces a delete_course.
C19_Witness ==
    /\ courses # InitCourses
    /\ \E c \in courses :
          /\ \E en \in enrollments : en.course = c.id
          /\ \E e \in exams : e.course = c.id
          /\ ENABLED delete_course([type |-> "admin", id |-> 1], c.id, "POST")

\* C20: a submission, once created, stays in the store with its student, exam,
\* file and submission_time through every operation, and delete_exam on an exam
\* that has submissions removes neither the exam nor the submissions.
C20_SubmissionImmutable ==
    [][ /\ submissions \subseteq submissions'
        /\ \A sb \in submissions : \E e \in exams' : e.id = sb.exam
      ]_vars

\* C20 witness: a graded submission whose student is no longer enrolled and whose
\* exam was moved to another course faces a delete_exam of its exam.
C20_Witness ==
    \E sb \in submissions, e \in exams :
        /\ e.id = sb.exam
        /\ e.course # 1
        /\ ~Enrolled(sb.student, e.course)
        /\ \E r \in results : r.submission = sb.id
        /\ delete_exam_outcome([type |-> "admin", id |-> 1], e.id, "POST") = "Protected"

\* C21: the checks of submit_exam run in a fixed order and the first that fails
\* decides: NotEnrolled before ExamNotActive before AlreadySubmitted before
\* InvalidFile. A student who is not enrolled gets NotEnrolled also outside the
\* window, and one who submitted gets ExamNotActive once the window is over.
C21_FirstFailingCheckDecides ==
    \A u \in Students, e \in exams, method \in Methods, file \in Files :
        LET outcome == submit_exam_outcome(u, e.id, method, file)
            inside == e.start <= now /\ now <= e.end
            accepted == file.size <= 10 * 1024 * 1024
                        /\ file.name = <<"a", ".", "p", "d", "f">>
        IN  IF ~Enrolled(u.id, e.course) THEN outcome = "NotEnrolled"
            ELSE IF ~inside THEN outcome = "ExamNotActive"
            ELSE IF Submitted(u.id, e.id) THEN outcome = "AlreadySubmitted"
            ELSE IF method = "POST" /\ ~accepted THEN outcome = "InvalidFile"
            ELSE outcome \in {"Form", "Save"}

\* C21 witness: the window of an exam is over, one enrolled student has submitted
\* to it, and another student is not enrolled in its course.
C21_Witness ==
    \E e \in exams, u \in Students, v \in Students :
        /\ now > e.end
        /\ Enrolled(u.id, e.course) /\ Submitted(u.id, e.id)
        /\ ~Enrolled(v.id, e.course)

\* C22: a bulk_enroll whose validation passed ends with an Enrollment created by it
\* for every student of the batch or for none, also when another request enrolls a
\* student of the batch before the batch's inserts finish.
C22_BulkAtomicAfterValidation ==
    \A p \in Procs :
        reqs[p].pc = "bulk_failed" => reqs[p].created = {}

\* C23: ExamTimingMiddleware on its own answers 403 to every submission POST whose
\* exam is not active at request time, before start_time as well as after
\* end_time, so that the view is not invoked.
C23_MiddlewareRejectsOutsideWindow ==
    \A u \in Students, e \in exams :
        (now < e.start \/ now > e.end) =>
            ExamTimingMiddleware_call(u, "POST", e.id) = "Forbidden"

\* C24: no two Courses of one Program have names that are equal when letter case
\* is ignored, after any sequence of create_course, update_course and
\* bulk_create_courses.
C24_CourseNamesUniqueIgnoringCase ==
    \A c \in courses, d \in courses :
        (c.program = d.program /\ lower(c.name) = lower(d.name)) => c = d

\* C25: for each status upcoming, active and completed, exam_list_admin and
\* exam_list_student list exactly the exams in scope whose classification at
\* request time is that status, and status all or none lists every exam in scope.
Classification(e) ==
    IF now < e.start THEN "upcoming"
    ELSE IF now <= e.end THEN "active"
    ELSE "completed"

C25_StatusFilterMatchesClassification ==
    /\ \A a \in Admins :
          LET scope == {e \in exams : e.admin = a.id}
          IN  /\ \A status \in {"upcoming", "active", "completed"} :
                    exam_list_admin(a, status) = {e \in scope : Classification(e) = status}
              /\ \A status \in {"all", ""} : exam_list_admin(a, status) = scope
    /\ \A u \in Students :
          LET scope == {e \in exams : Enrolled(u.id, e.course)}
          IN  /\ \A status \in {"upcoming", "active", "completed"} :
                    exam_list_student(u, status) = {e \in scope : Classification(e) = status}
              /\ \A status \in {"all", ""} : exam_list_student(u, status) = scope

\* C26: every ExamSubmission is backed by an Enrollment: for each submission of
\* student s to exam e there is an Enrollment(s, e.course), after any sequential
\* mix of the enrollment views, submit_exam and update_exam.
C26_SubmissionBackedByEnrollment ==
    \A sb \in submissions, e \in exams :
        e.id = sb.exam => Enrolled(sb.student, e.course)

\* C27: when unenroll_course and submit_exam of one student for one course
\* interleave, each reading its precondition and then writing, the state they end
\* in never holds a submission of the student for an exam of the course without an
\* Enrollment of the student in the course.
C27_UnenrollSubmitRace ==
    (\A p \in Procs : reqs[p] = Idle) =>
        \A sb \in submissions, e \in exams :
            e.id = sb.exam =>
                \E en \in enrollments : en.student = sb.student /\ en.course = e.course

\* C28: every ExamSubmission's submission_time lies inside its exam's current
\* window, start_time <= submission_time <= end_time, also after update_exam has
\* changed the window of an exam that has submissions.
C28_SubmissionTimeInsideWindow ==
    \A sb \in submissions, e \in exams :
        e.id = sb.exam => (e.start <= sb.time /\ sb.time <= e.end)

\* C29: for every authenticated user (student, admin or superuser) a request
\* to dashboard, admin_dashboard or student_dashboard reaches a rendered page:
\* following the redirects never brings the browser to a view it has already
\* asked for in the same chain, so the redirects form no cycle.
C29_DashboardRedirectsAcyclic ==
    \A p \in Procs :
        reqs[p].pc \in {"browse", "rendered", "too_many_redirects"} =>
            /\ reqs[p].pc # "too_many_redirects"
            /\ \A i, j \in DOMAIN reqs[p].path :
                   i < j => reqs[p].path[i] # reqs[p].path[j]

\* the admin an exam or a submission's exam belongs to, read off the tables
ExamOwner(u, exam_id) ==
    u.type = "admin" /\ \E e \in exams : e.id = exam_id /\ e.admin = u.id

SubmissionOwner(u, submission_id) ==
    \E sb \in submissions : sb.id = submission_id /\ ExamOwner(u, sb.exam)

\* a step that leaves every exam that stays with the admin it had
AdminKept == \A e \in exams : \A e2 \in exams' : e2.id = e.id => e2.admin = e.admin

\* a step that changes the Exams or the Results
ExamsOrResultsChanged == exams' # exams \/ results' # results

\* C30: exam ownership confines admin writes. A created exam belongs to the
\* admin who created it, no request changes the admin of an exam, and a request
\* to update_exam, delete_exam or grade_submission by a student or by an admin
\* who does not own the exam (the submission's exam) leaves Exams and Results
\* unchanged; no other request of a student changes them either.
C30_ExamOwnership ==
    /\ \A u \in OwnerUsers, method \in Methods :
           ~ENABLED (/\ create_exam(u, method, 1, TimeStep, TimeStep + MinDuration)
                     /\ \/ ~AdminKept
                        \/ results' # results
                        \/ \E e \in exams' \ exams : u.type # "admin" \/ e.admin # u.id)
    /\ \A u \in OwnerUsers, exam_id \in 1..MaxExamId, method \in Methods :
           /\ ~ENABLED (/\ update_exam(u, exam_id, method, 1, TimeStep, TimeStep + MinDuration)
                        /\ ~AdminKept \/ (~ExamOwner(u, exam_id) /\ ExamsOrResultsChanged))
           /\ ~ENABLED (/\ delete_exam(u, exam_id, method)
                        /\ ~AdminKept \/ (~ExamOwner(u, exam_id) /\ ExamsOrResultsChanged))
    /\ \A u \in OwnerUsers, submission_id \in 1..MaxSubId, method \in Methods,
          marks \in {0, FullMarks} :
           ~ENABLED (/\ grade_submission(u, submission_id, method, marks, NoGrade, "")
                     /\ \/ exams' # exams
                        \/ ~SubmissionOwner(u, submission_id) /\ results' # results
                        \/ \E r \in results' : r \notin results /\ r.submission # submission_id)
    /\ ~ENABLED ((Tick \/ EnrollCourse \/ SubmitExam) /\ ExamsOrResultsChanged)

\* both admins own an exam, a submission to the first admin's exam is graded,
\* and the owner's update and grading requests would change the tables while
\* the other admin's same requests are the case the claim is about
C30_Witness ==
    \E e1, e2 \in exams, sb \in submissions :
        /\ e1.admin = 1
        /\ e2.admin = OtherAdmin.id
        /\ sb.exam = e1.id
        /\ \E r \in results : r.submission = sb.id
        /\ ENABLED (/\ grade_submission([type |-> "admin", id |-> 1], sb.id, "POST", 0,
                                        NoGrade, "")
                    /\ results' # results)
        /\ ENABLED (/\ update_exam([type |-> "admin", id |-> 1], e1.id, "POST", 1, TimeStep,
                                   TimeStep + MinDuration)
                    /\ exams' # exams)
        /\ update_exam_outcome(OtherAdmin, e1.id, "POST", 1, TimeStep,
                               TimeStep + MinDuration) = "NotFound"
        /\ grade_submission_outcome(OtherAdmin, sb.id, "POST", 0) = "NotFound"

====
